---- MODULE Spec2Model ----
(***************************************************************************)
(* A model of src/src/pywinctl/_pywinctl_win.py (PyWinCtl, win32 backend):  *)
(*   - the always-on-bottom watcher (_SendBottom and the Win32Window        *)
(*     methods that drive it),                                              *)
(*   - the menu tree (Win32Window._Menu),                                   *)
(*   - the title / application-name query engine.                           *)
(* The three parts have their own specification (Spec, MenuSpec,            *)
(* QuerySpec) over one set of variables; a part's actions leave the other   *)
(* parts' variables alone.                                                  *)
(***************************************************************************)
EXTENDS Integers, Sequences, FiniteSets, TLC

(***************************************************************************)
(* Bounds of the model.                                                     *)
(***************************************************************************)
MaxCalls == 3
MaxLoopCmds == 2
MaxPolls == 2

(***************************************************************************)
(* Window handles.  W is the handle held by the Win32Window object under    *)
(* study; the others are foreign top-level windows.                         *)
(***************************************************************************)
W == 1
OtherWindows == {2, 3}
Owner == 7

Callers == {"main", "aux"}
Threads == {"bg"} \cup Callers
LoopPcs == {"while", "isLast", "setpos", "wait"}

VARIABLES
    \* ---- window system ----
    exists,      \* win32gui.IsWindow(W)
    stack,       \* _findMainWindowHandles(): enumerated handles, front to back
    osParent,    \* win32gui.GetParent(W)
    \* ---- Win32Window / _SendBottom ----
    parent_,     \* Win32Window._parent
    t,           \* Win32Window._t: "None" or "obj" (a _SendBottom instance)
    keep,        \* _SendBottom._keep (threading.Event flag)
    pc,          \* position of every thread
    raised,      \* the exception that ended a thread's last call, or "none"
    \* ---- observation (history) variables of the watcher ----
    nCalls,      \* API calls made by the callers so far
    cmdsCall,    \* HWND_BOTTOM commands issued by alwaysOnBottom itself
    cmdsLoop,    \* HWND_BOTTOM commands issued by executions of run()
    wsCmds,      \* other commands issued to the window system (sendBehind)
    polls,       \* results of the first _isLast() calls of the thread "bg"
    waited,      \* the last _keep.wait() of the thread "bg": <<>> before
                 \* it, then <<the flag at the call, how long it took>>
    scenario,    \* W was enumerated second of three at construction, and
                 \* nothing but one alwaysOnBottom(True) has acted since
    hazard,      \* "cleared": kill() cleared the flag while the thread "bg"
                 \* was in run() and "bg" has not tested the flag since;
                 \* "revived": restart() set the flag again at that point
    cmdsSince,   \* per thread, the HWND_BOTTOM commands its run() issued
                 \* since the flag was cleared, or since it was revived
    \* ---- menu ----
    hMenu,       \* _Menu._hMenu
    native,      \* the native menus: handle -> sequence of items
    menuStructure, \* _Menu._menuStructure
    mOp,         \* the last menu operation and its arguments
    mRet,        \* its return value
    mRaised,     \* the exception it raised, or "none"
    posted,      \* WM_COMMAND ids it posted
    queried,     \* it called the OS (menu query or message)
    built,       \* it ran getMenu
    rebuilt,     \* it was a getMenu that directly followed a getMenu
    appChanges,  \* changes the application made to its native menus
    everBuilt,   \* some operation has run getMenu
    buildLog,    \* the insertions of the last run of getMenu, in order
    \* ---- query engine ----
    windows,     \* getAllWindows(): records of the enumerated windows
    qOp,         \* the last query and its arguments
    qRet,        \* its return value
    qRaised,     \* the exception it raised, or "none"
    compiled,    \* the query called re.compile
    enumerated,  \* the query called getAllWindows or getAllAppsNames
    compared,    \* the arguments of its calls of Re._cond_dic[condition]
    \* ---- item rectangles ----
    rIn,         \* the arguments of a call of _Menu._getMenuItemRect
    rOut         \* the rectangle it returned, <<>> before the call

wsvars == <<exists, stack, osParent>>
objvars == <<parent_, t, keep, pc, raised>>
obsvars == <<nCalls, cmdsCall, cmdsLoop, wsCmds, polls, waited, scenario,
             hazard, cmdsSince>>
mvars == <<hMenu, native, menuStructure, mOp, mRet, mRaised, posted, queried,
           built, rebuilt, appChanges, everBuilt, buildLog>>
qvars == <<windows, qOp, qRet, qRaised, compiled, enumerated, compared>>
rvars == <<rIn, rOut>>
vars == <<wsvars, objvars, obsvars, mvars, qvars, rvars>>

(***************************************************************************)
(* Helpers on sequences.                                                    *)
(***************************************************************************)
Range(s) == {s[i] : i \in 1..Len(s)}

Without(s, x) == SelectSeq(s, LAMBDA y : y # x)

Min(a, b) == IF a < b THEN a ELSE b

Perms3 == {<<a, b, c>> : a \in {W} \cup OtherWindows,
                         b \in {W} \cup OtherWindows,
                         c \in {W} \cup OtherWindows}

Stacks == {s \in Perms3 : Cardinality(Range(s)) = 3}

(***************************************************************************)
(* The window system's SetWindowPos, as far as the enumeration order goes.  *)
(***************************************************************************)
\* SetWindowPos(hWnd, HWND_BOTTOM, ...): W becomes the last window
SetPosBottom(s) == Append(Without(s, W), W)

\* SetWindowPos(hWnd, HWND_TOPMOST, ...): W becomes the first window
SetPosTopMost(s) == <<W>> \o Without(s, W)

\* _SendBottom._isLast
IsLast(s) == IF s = <<>> THEN FALSE ELSE s[Len(s)] = W

\* threading.Thread.is_alive of the _SendBottom thread
IsAlive == pc["bg"] \in LoopPcs

\* the executions of _SendBottom.run that are under way
Running == {th \in Threads : pc[th] \in LoopPcs}


(***************************************************************************)
(* Native menus.  A text is a sequence of characters; an item is what       *)
(* GetMenuItemInfo reports for it: text, hSubMenu (0 for none) and wID.     *)
(***************************************************************************)
MenuHandles == {1, 2, 3}
RootMenu == 1
MaxItems == 3
MaxAppChanges == 1

Tab == "\t"
Amp == "&"
Separator == <<"s", "e", "p", "a", "r", "a", "t", "o", "r">>

Item(text, h, id) == [text |-> text, hSubMenu |-> h, wID |-> id]

EmptyNative == [h \in MenuHandles |-> <<>>]

Menu(root, sub2, sub3) == [h \in MenuHandles |->
                             IF h = 1 THEN root ELSE IF h = 2 THEN sub2
                             ELSE sub3]

\* the native menus a window starts with
NativeMenus == {
    \* File > (Save, a textless separator, F)
    Menu(<<Item(<<"&", "F">>, 2, 0)>>,
         <<Item(<<"S", Tab, "K">>, 0, 11), Item(<<>>, 0, 0),
           Item(<<"F">>, 0, 12)>>,
         <<>>),
    \* two top-level items with the same title, and a plain command
    Menu(<<Item(<<"S", Tab, "K">>, 0, 11), Item(<<"&", "F">>, 2, 0),
           Item(<<"F">>, 0, 12)>>,
         <<Item(<<"F">>, 0, 13)>>,
         <<>>),
    \* a textless item with a submenu, and an item whose text is only "&"
    Menu(<<Item(<<>>, 2, 0), Item(<<"&">>, 0, 12)>>,
         <<Item(<<"S", Tab, "K">>, 0, 11)>>,
         <<>>),
    \* three levels
    Menu(<<Item(<<"&", "F">>, 2, 0)>>,
         <<Item(<<"&", "F">>, 3, 0), Item(<<"S", Tab, "K">>, 0, 11)>>,
         <<Item(<<"S">>, 0, 12), Item(<<"&">>, 0, 13)>>),
    \* a menu bar whose only item has no text
    Menu(<<Item(<<>>, 0, 0)>>, <<>>, <<>>) }

\* the items an application adds to a menu later
NewItems == {Item(<<"S">>, 0, 14), Item(<<"&", "F">>, 0, 15)}

\* the test that always succeeds
HasMenu_Always == TRUE

\* if self._hMenu:
HasMenu == hMenu # 0

\* win32gui.GetMenuItemCount: -1 for a handle that is not a menu
GetMenuItemCount(h) ==
    IF exists /\ h \in MenuHandles /\ hMenu # 0 THEN Len(native[h]) ELSE -1

\* win32gui.GetMenuItemRect of the item at 0-based position pos of menu h,
\* in absolute screen coordinates
OsMenuItemRect(h, pos) == <<10 * h, 10 * pos, 10 * h + 8, 10 * pos + 8>>

ZeroRect == <<0, 0, 0, 0>>

\* self._parent.left and self._parent.top of the window with the menu
WindowLeft == 3
WindowTop == 4

Abs(n) == IF n < 0 THEN -n ELSE n

\* _getMenuItemRect(hSubMenu, itemPos, parentRect, relative=True) when
\* win32gui.GetMenuItemRect succeeds with the rectangle osRect: left and top
\* are self._parent.left and self._parent.top, parentRect is <<>> for None
RelativeRect(osRect, left, top, parentRect) ==
    LET x == Abs(Abs(osRect[1]) - Abs(left))
        y == Abs(Abs(osRect[2]) - Abs(top))
        r == Abs(Abs(osRect[3]) - Abs(left))
        b == Abs(Abs(osRect[4]) - Abs(top))
    IN  <<IF parentRect # <<>> THEN parentRect[1] ELSE x, y, r, b>>

(***************************************************************************)
(* Python str and dict operations used by _Menu.                            *)
(***************************************************************************)
RECURSIVE UntilTab(_)
\* text.split("\t")[0]
UntilTab(text) ==
    IF text = <<>> \/ Head(text) = Tab THEN <<>>
    ELSE <<Head(text)>> \o UntilTab(Tail(text))

RECURSIVE AfterTab(_)
\* what follows the first tab of text
AfterTab(text) ==
    IF text = <<>> THEN <<>>
    ELSE IF Head(text) = Tab THEN Tail(text) ELSE AfterTab(Tail(text))

\* title = (text[0].replace("&", "")) or "separator"
TitleOf(text) ==
    LET stripped == SelectSeq(UntilTab(text), LAMBDA ch : ch # Amp)
    IN  IF stripped = <<>> THEN Separator ELSE stripped

\* shortcut = "" if len(text) < 2 else text[1]
ShortcutOf(text) ==
    IF Tab \in Range(text) THEN UntilTab(AfterTab(text)) ELSE <<>>

\* a dict is the sequence of its [key, node] entries in insertion order
Keys(option) == {option[i].key : i \in 1..Len(option)}

\* option[key]
DictGet(option, key) ==
    LET i == CHOOSE j \in 1..Len(option) : option[j].key = key
    IN  option[i].node

\* appending the entry whether or not the key is there already
DictSet_Append(option, key, node) ==
    Append(option, [key |-> key, node |-> node])

\* an assignment that leaves a key that is there already alone
DictSet_KeepFirst(option, key, node) ==
    IF key \in Keys(option) THEN option
    ELSE Append(option, [key |-> key, node |-> node])

\* option[key] = node
DictSet(option, key, node) ==
    IF key \in Keys(option)
      THEN [i \in 1..Len(option) |->
              IF option[i].key = key THEN [key |-> key, node |-> node]
              ELSE option[i]]
      ELSE Append(option, [key |-> key, node |-> node])

(***************************************************************************)
(* _Menu.getMenu                                                            *)
(***************************************************************************)
RECURSIVE SetAt(_, _, _, _)
\* option = self._menuStructure; for section in level...: option =
\* option[section]; ...; option[title] = node.  level is the sequence of the
\* titles of the ancestors ("entries" follows each of them in the code).
SetAt(ms, level, title, node) ==
    IF level = <<>> THEN DictSet(ms, title, node)
    ELSE [i \in 1..Len(ms) |->
            IF ms[i].key = Head(level)
              THEN [ms[i] EXCEPT !.node.entries =
                                   SetAt(@, Tail(level), title, node)]
              ELSE ms[i]]

RECURSIVE FindItFrom_SiblingsFirst(_, _, _, _, _)
\* findit that goes on with the next items of the menu before it visits the
\* submenu of the item it inserted
FindItFrom_SiblingsFirst(st, parent, level, i, parentRect) ==
    IF i > GetMenuItemCount(parent) THEN st
    ELSE LET info == native[parent][i]
         IN  IF info.text = <<>>
               THEN FindItFrom_SiblingsFirst(st, parent, level, i + 1,
                                             parentRect)
               ELSE LET title == TitleOf(info.text)
                        rect == RelativeRect(OsMenuItemRect(parent, i - 1),
                                             WindowLeft, WindowTop, parentRect)
                        node == [parent |-> parent,
                                 hSubMenu |-> info.hSubMenu,
                                 wID |-> info.wID,
                                 shortcut |-> ShortcutOf(info.text),
                                 rect |-> rect,
                                 entries |-> <<>>]
                        st1 == [ms |-> SetAt(st.ms, level, title, node),
                                log |-> Append(st.log,
                                               [parent |-> parent,
                                                pos |-> i - 1,
                                                level |-> level])]
                        st2 == FindItFrom_SiblingsFirst(st1, parent, level,
                                                        i + 1, parentRect)
                    IN  FindItFrom_SiblingsFirst(st2, info.hSubMenu,
                                                 level \o <<title>>, 1, rect)

RECURSIVE FindItFrom(_, _, _, _, _)
\* findit(parent, level, parentRect), from the item at 1-based position i
\* on.  st.ms is self._menuStructure; st.log lists the insertions made so
\* far: the menu and 0-based position of the item and the level it was
\* written at.
FindItFrom(st, parent, level, i, parentRect) ==
    IF i > GetMenuItemCount(parent) THEN st
    ELSE LET info == native[parent][i]
         IN  IF info.text = <<>>
               THEN FindItFrom(st, parent, level, i + 1, parentRect)
               ELSE LET title == TitleOf(info.text)
                        rect == RelativeRect(OsMenuItemRect(parent, i - 1),
                                             WindowLeft, WindowTop, parentRect)
                        node == [parent |-> parent,
                                 hSubMenu |-> info.hSubMenu,
                                 wID |-> info.wID,
                                 shortcut |-> ShortcutOf(info.text),
                                 rect |-> rect,
                                 entries |-> <<>>]
                        st1 == [ms |-> SetAt(st.ms, level, title, node),
                                log |-> Append(st.log,
                                               [parent |-> parent,
                                                pos |-> i - 1,
                                                level |-> level])]
                        st2 == FindItFrom(st1, info.hSubMenu,
                                          level \o <<title>>, 1, rect)
                    IN  FindItFrom(st2, parent, level, i + 1, parentRect)

\* getMenu on the tree ms: the tree and the insertions when it returns
Build(ms) ==
    IF HasMenu THEN FindItFrom([ms |-> ms, log |-> <<>>], hMenu, <<>>, 1, <<>>)
    ELSE [ms |-> ms, log |-> <<>>]

\* the value of self._menuStructure when getMenu returns
GetMenuResult(ms) == Build(ms).ms

GetMenu ==
    /\ menuStructure' = GetMenuResult(menuStructure)
    /\ mRet' = menuStructure'
    /\ mOp' = [op |-> "getMenu", alive |-> exists]
    /\ mRaised' = "none"
    /\ posted' = <<>>
    /\ queried' = HasMenu
    /\ built' = TRUE
    /\ rebuilt' = (mOp.op = "getMenu" /\ mOp.alive = exists)
    /\ everBuilt' = TRUE
    /\ buildLog' = Build(menuStructure).log
    /\ UNCHANGED <<hMenu, native, appChanges, wsvars, objvars, obsvars, qvars, rvars>>

(***************************************************************************)
(* _Menu.clickMenuItem                                                      *)
(***************************************************************************)
RECURSIVE WalkPath_Continue(_, _)
\* the walk that ignores an absent segment instead of giving up
WalkPath_Continue(option, items) ==
    IF items = <<>> THEN option
    ELSE IF Head(items) \in Keys(option)
           THEN WalkPath_Continue(DictGet(option, Head(items)).entries,
                                  Tail(items))
           ELSE WalkPath_Continue(option, Tail(items))

RECURSIVE WalkPath(_, _)
\* for item in itemPath[:-1]: option = option[item]["entries"] if item in
\* option, else option = {} and break
WalkPath(option, items) ==
    IF items = <<>> THEN option
    ELSE IF Head(items) \in Keys(option)
           THEN WalkPath(DictGet(option, Head(items)).entries, Tail(items))
           ELSE <<>>

\* the id the path resolves to in the tree ms, 0 if it resolves to none
PathItemID(ms, itemPath) ==
    LET option == WalkPath(ms, SubSeq(itemPath, 1, Len(itemPath) - 1))
        last == itemPath[Len(itemPath)]
    IN  IF option # <<>> /\ last \in Keys(option)
          THEN DictGet(option, last).wID ELSE 0

\* the branch that looks at the path before it looks at the id
ClickBranch_PathFirst(itemPath, wID) ==
    IF itemPath # <<>> THEN "path" ELSE IF wID # 0 THEN "id" ELSE "none"

\* if wID: ... elif itemPath: ...
ClickBranch(itemPath, wID) ==
    IF wID # 0 THEN "id" ELSE IF itemPath # <<>> THEN "path" ELSE "none"

\* a click that posts whatever id it ended up with
Dispatches_Always(itemID) == TRUE

\* if itemID:
Dispatches(itemID) == itemID # 0

ClickMenuItem(itemPath, wID) ==
    LET branch == IF HasMenu THEN ClickBranch(itemPath, wID) ELSE "none"
        build == branch = "path" /\ menuStructure = <<>>
        ms == IF build THEN GetMenuResult(menuStructure) ELSE menuStructure
        itemID == IF branch = "id" THEN wID
                  ELSE IF branch = "path" THEN PathItemID(ms, itemPath)
                  ELSE 0
    IN  /\ menuStructure' = ms
        /\ mOp' = [op |-> "click", path |-> itemPath, wID |-> wID,
                   alive |-> exists]
        /\ built' = build
        /\ rebuilt' = FALSE
        /\ everBuilt' = (everBuilt \/ build)
        /\ buildLog' = IF build THEN Build(menuStructure).log ELSE buildLog
        /\ queried' = (build \/ Dispatches(itemID))
        /\ IF Dispatches(itemID) /\ ~exists
             THEN \* PostMessage fails on the stale handle: pywintypes.error
                  /\ posted' = <<>>
                  /\ mRet' = "none"
                  /\ mRaised' = "os_error"
             ELSE /\ posted' = IF Dispatches(itemID) THEN <<itemID>> ELSE <<>>
                  /\ mRet' = Dispatches(itemID)
                  /\ mRaised' = "none"
        /\ UNCHANGED <<hMenu, native, appChanges, wsvars, objvars, obsvars,
                       qvars, rvars>>

(***************************************************************************)
(* _Menu.getMenuItemRect                                                    *)
(***************************************************************************)
RECURSIVE FindMenu(_, _, _, _)
\* findMenu(inMenu, hSubMenu) from the entry at position i on; found is
\* menuFound[0]
FindMenu(inMenu, hSubMenu, i, found) ==
    IF i > Len(inMenu) THEN found
    ELSE IF inMenu[i].node.hSubMenu = hSubMenu
           THEN inMenu[i].node.entries
           ELSE FindMenu(inMenu, hSubMenu, i + 1,
                         FindMenu(inMenu[i].node.entries, hSubMenu, 1, found))

\* the loop over subMenu: the 0-based position of the first entry with the
\* id, and the position the loop ended at when there is none
ItemPosIn(subMenu, wID) ==
    LET hits == {i \in 1..Len(subMenu) : subMenu[i].node.wID = wID}
    IN  IF hits = {} THEN Len(subMenu) - 1
        ELSE (CHOOSE i \in hits : \A j \in hits : i <= j) - 1

\* findit(menu, hSubMenu, wID)
FindItemPos(ms, hSubMenu, wID) ==
    ItemPosIn(FindMenu(ms, hSubMenu, 1, <<>>), wID)

\* _Menu.getMenuItemCount
MenuGetMenuItemCount(hSubMenu) ==
    GetMenuItemCount(IF hSubMenu = 0 THEN hMenu ELSE hSubMenu)

GetMenuItemRect(hSubMenu, wID) ==
    LET build == menuStructure = <<>> /\ HasMenu
        ms == IF build THEN GetMenuResult(menuStructure) ELSE menuStructure
        itemPos == FindItemPos(ms, hSubMenu, wID)
        inCount == HasMenu /\ 0 <= itemPos
                     /\ itemPos < MenuGetMenuItemCount(hSubMenu)
        \* result of win32gui.GetMenuItemRect(self._hWnd, hSubMenu, itemPos)
        result == exists /\ hSubMenu \in MenuHandles
                    /\ itemPos < GetMenuItemCount(hSubMenu)
    IN  /\ menuStructure' = ms
        /\ mOp' = [op |-> "getMenuItemRect", hSubMenu |-> hSubMenu,
                   wID |-> wID, alive |-> exists]
        /\ built' = build
        /\ rebuilt' = FALSE
        /\ everBuilt' = (everBuilt \/ build)
        /\ buildLog' = IF build THEN Build(menuStructure).log ELSE buildLog
        /\ queried' = (build \/ (HasMenu /\ 0 <= itemPos))
        /\ posted' = <<>>
        /\ mRet' = IF inCount /\ result THEN OsMenuItemRect(hSubMenu, itemPos)
                   ELSE ZeroRect
        /\ mRaised' = "none"
        /\ UNCHANGED <<hMenu, native, appChanges, wsvars, objvars, obsvars,
                       qvars, rvars>>

(***************************************************************************)
(* The application that owns the window changes its menus.                  *)
(***************************************************************************)
RemoveAt(s, i) == SubSeq(s, 1, i - 1) \o SubSeq(s, i + 1, Len(s))

AppChange(newNative) ==
    /\ exists
    /\ hMenu # 0
    /\ appChanges < MaxAppChanges
    /\ appChanges' = appChanges + 1
    /\ native' = newNative
    /\ mOp' = [op |-> "app", alive |-> exists]
    /\ rebuilt' = FALSE
    /\ UNCHANGED <<hMenu, menuStructure, mRet, mRaised, posted, queried,
                   built, everBuilt, buildLog, wsvars, objvars, obsvars, qvars, rvars>>

AppRemoveItem ==
    \E h \in MenuHandles : \E i \in 1..Len(native[h]) :
        AppChange([native EXCEPT ![h] = RemoveAt(@, i)])

AppAppendItem ==
    \E h \in MenuHandles : \E item \in NewItems :
        /\ Len(native[h]) < MaxItems
        /\ AppChange([native EXCEPT ![h] = Append(@, item)])

(***************************************************************************)
(* The query engine.  A string is a sequence of characters.  pywinctl.Re    *)
(* (the condition constants and Re._cond_dic) lives in pywinctl/__init__.py *)
(* and is modelled from its documentation in getWindowsWithTitle.           *)
(***************************************************************************)
IGNORECASE == 2
LOCALE == 4
DefaultRatio == 90

\* A flags argument is a number together with its type: int is FALSE for a
\* number that is not an instance of int (a float), and n is then its
\* integer part.
IntFlags(n) == [int |-> TRUE, n |-> n]
FloatFlags(n) == [int |-> FALSE, n |-> n]

\* flags & bit, for a bit that is a power of two
HasBit(n, bit) == (n \div bit) % 2 = 1

Conditions == {"IS", "CONTAINS", "STARTSWITH", "ENDSWITH", "NOTIS",
               "NOTCONTAINS", "NOTSTARTSWITH", "NOTENDSWITH", "MATCH",
               "NOTMATCH", "EDITDISTANCE", "DIFFRATIO"}

\* str.lower
Lower(str) == [i \in 1..Len(str) |-> IF str[i] = "A" THEN "a"
                                      ELSE IF str[i] = "B" THEN "b"
                                      ELSE IF str[i] = "C" THEN "c"
                                      ELSE str[i]]

\* s2.startswith(s1)
StartsWith(s1, s2) == Len(s1) <= Len(s2) /\ SubSeq(s2, 1, Len(s1)) = s1

\* s2.endswith(s1)
EndsWith(s1, s2) ==
    Len(s1) <= Len(s2) /\ SubSeq(s2, Len(s2) - Len(s1) + 1, Len(s2)) = s1

\* s1 in s2
Contains(s1, s2) ==
    \E i \in 0..(Len(s2) - Len(s1)) : SubSeq(s2, i + 1, i + Len(s1)) = s1

\* re.compile raises re.error on a pattern with an unbalanced parenthesis
Malformed(pattern) == "(" \in Range(pattern)

\* compiled.search(s2) for a pattern of literal characters that was
\* compiled with the regex flags fl
Search(pattern, fl, s2) ==
    IF HasBit(fl, IGNORECASE) THEN Contains(Lower(pattern), Lower(s2))
    ELSE Contains(pattern, s2)

RECURSIVE Distance(_, _)
\* the edit distance of two strings
Distance(s1, s2) ==
    IF s1 = <<>> THEN Len(s2)
    ELSE IF s2 = <<>> THEN Len(s1)
    ELSE IF Head(s1) = Head(s2) THEN Distance(Tail(s1), Tail(s2))
    ELSE 1 + Min(Distance(Tail(s1), Tail(s2)),
                 Min(Distance(Tail(s1), s2), Distance(s1, Tail(s2))))

Max(a, b) == IF a > b THEN a ELSE b

\* the similarity of two strings as a percentage, from their edit distance
EditRatio(s1, s2) ==
    IF s1 = <<>> /\ s2 = <<>> THEN 100
    ELSE (100 * (Max(Len(s1), Len(s2)) - Distance(s1, s2)))
            \div Max(Len(s1), Len(s2))

RECURSIVE Common(_, _)
\* the number of characters of the longest common subsequence
Common(s1, s2) ==
    IF s1 = <<>> \/ s2 = <<>> THEN 0
    ELSE IF Head(s1) = Head(s2) THEN 1 + Common(Tail(s1), Tail(s2))
    ELSE Max(Common(Tail(s1), s2), Common(s1, Tail(s2)))

\* difflib's ratio as a percentage
DiffRatio(s1, s2) ==
    IF s1 = <<>> /\ s2 = <<>> THEN 100
    ELSE (200 * Common(s1, s2)) \div (Len(s1) + Len(s2))

\* Re._cond_dic[condition](s1, s2, fl); for MATCH and NOTMATCH s1 is the
\* pattern that was compiled with the flags fl
CondDic(condition, s1, s2, fl) ==
    CASE condition = "IS" -> s1 = s2
      [] condition = "CONTAINS" -> Contains(s1, s2)
      [] condition = "STARTSWITH" -> StartsWith(s1, s2)
      [] condition = "ENDSWITH" -> EndsWith(s1, s2)
      [] condition = "NOTIS" -> s1 # s2
      [] condition = "NOTCONTAINS" -> ~Contains(s1, s2)
      [] condition = "NOTSTARTSWITH" -> ~StartsWith(s1, s2)
      [] condition = "NOTENDSWITH" -> ~EndsWith(s1, s2)
      [] condition = "MATCH" -> Search(s1, fl, s2)
      [] condition = "NOTMATCH" -> ~Search(s1, fl, s2)
      [] condition = "EDITDISTANCE" -> EditRatio(s1, s2) >= fl
      [] condition = "DIFFRATIO" -> DiffRatio(s1, s2) >= fl

\* the test that takes every condition for a known one
KnownCondition_Any(condition) == TRUE

\* condition in Re._cond_dic
KnownCondition(condition) == condition \in Conditions

\* the guard that does not look at the pattern
QueryGuard_AnyPattern(pattern, condition) == KnownCondition(condition)

\* if title and condition in Re._cond_dic:
QueryGuard(pattern, condition) == pattern # <<>> /\ KnownCondition(condition)

\* re.compile(title, flags) raises re.error
CompileFails(pattern, condition) ==
    condition \in {"MATCH", "NOTMATCH"} /\ Malformed(pattern)

\* what re.compile(title, flags) raises, "none" when it returns: TypeError
\* on flags that are not an int, re.error on a malformed pattern, ValueError
\* on the LOCALE flag, which a str pattern cannot have
CompileFault(pattern, condition, flags) ==
    IF condition \notin {"MATCH", "NOTMATCH"} THEN "none"
    ELSE IF ~flags.int THEN "type_error"
    ELSE IF CompileFails(pattern, condition) THEN "re_error"
    ELSE IF HasBit(flags.n, LOCALE) THEN "value_error"
    ELSE "none"

\* the clamp that lets 0 through
FlagsUsed_ZeroAllowed(condition, flags) ==
    IF condition \in {"EDITDISTANCE", "DIFFRATIO"}
         /\ (~flags.int \/ ~(0 <= flags.n /\ flags.n <= 100))
      THEN DefaultRatio ELSE flags.n

\* flags after the elif chain: the ratio conditions replace a flags value
\* that is not an int or is outside 1..100 by 90
FlagsUsed(condition, flags) ==
    IF condition \in {"EDITDISTANCE", "DIFFRATIO"}
         /\ (~flags.int \/ ~(0 < flags.n /\ flags.n <= 100))
      THEN DefaultRatio ELSE flags.n

\* the chain that never reaches lower = True
LowerUsed_Never(condition, flags) == FALSE

\* lower = True
LowerUsed(condition, flags) ==
    /\ condition \notin {"MATCH", "NOTMATCH", "EDITDISTANCE", "DIFFRATIO"}
    /\ flags = IntFlags(IGNORECASE)

\* the arguments Re._cond_dic[condition] is called with for one candidate
CondArgs(pattern, candidate, condition, flags) ==
    <<IF LowerUsed(condition, flags) THEN Lower(pattern) ELSE pattern,
      IF LowerUsed(condition, flags) THEN Lower(candidate) ELSE candidate,
      FlagsUsed(condition, flags)>>

\* the test applied to one candidate string
Matches(pattern, candidate, condition, flags) ==
    /\ candidate # <<>>
    /\ LET args == CondArgs(pattern, candidate, condition, flags)
       IN  CondDic(condition, args[1], args[2], args[3])

\* the filter that lets every application through
AppFilterPasses_Ignored(app, win) == TRUE

\* not app or (app and win.getAppName() in app)
AppFilterPasses(app, win) == app = {} \/ win.app \in app

\* a match put in front of the matches found so far
MatchesAppend_Front(matches, win) == <<win>> \o matches

\* matches.append(win)
MatchesAppend(matches, win) == Append(matches, win)

RECURSIVE Collected(_, _, _)
\* the matches list after the first n passes of the for loop over seq, of
\* which the passes in found made a match
Collected(seq, found, n) ==
    IF n = 0 THEN <<>>
    ELSE IF found[n]
           THEN MatchesAppend(Collected(seq, found, n - 1), seq[n])
           ELSE Collected(seq, found, n - 1)

RECURSIVE Comparisons(_, _, _, _)
\* the calls of Re._cond_dic[condition] the for loop makes, in order: one
\* for every candidate that is not the empty string
Comparisons(pattern, cands, condition, flags) ==
    IF cands = <<>> THEN <<>>
    ELSE IF Head(cands) = <<>>
           THEN Comparisons(pattern, Tail(cands), condition, flags)
           ELSE <<CondArgs(pattern, Head(cands), condition, flags)>>
                   \o Comparisons(pattern, Tail(cands), condition, flags)

\* getAllAppsNames: the distinct application names, in the order of the
\* first window of each
AllAppsNames ==
    LET names == [i \in 1..Len(windows) |-> windows[i].app]
        first == {i \in 1..Len(names) : \A j \in 1..(i - 1) : names[j] # names[i]}
    IN  SelectSeq([i \in 1..Len(names) |-> IF i \in first THEN <<names[i]>>
                                           ELSE <<>>],
                  LAMBDA x : x # <<>>)

\* The body both query functions share: the guard, the elif chain and the
\* for loop over the candidate strings cands of the items seq, of which
\* those in pass are let through by the application filter.
\* Re._cond_dic[condition] raises KeyError on a condition it does not hold.
Query(pattern, condition, flags, seq, cands, pass) ==
    LET go == QueryGuard(pattern, condition)
        fault == IF go THEN CompileFault(pattern, condition, flags) ELSE "none"
        loop == go /\ fault = "none"
        titled == \E i \in 1..Len(cands) : cands[i] # <<>>
        known == condition \in Conditions
        found == [i \in 1..Len(seq) |->
                    /\ Matches(pattern, cands[i], condition, flags)
                    /\ pass[i]]
    IN  /\ compiled' = (go /\ condition \in {"MATCH", "NOTMATCH"})
        /\ enumerated' = loop
        /\ qRaised' = IF loop /\ titled /\ ~known THEN "key_error" ELSE fault
        /\ compared' = IF loop /\ known
                         THEN Comparisons(pattern, cands, condition, flags)
                         ELSE <<>>
        /\ qRet' = IF loop /\ known THEN Collected(seq, found, Len(seq))
                   ELSE <<>>

GetWindowsWithTitle(title, app, condition, flags) ==
    /\ qOp' = [op |-> "getWindowsWithTitle", pattern |-> title, app |-> app,
               condition |-> condition, flags |-> flags]
    /\ Query(title, condition, flags, windows,
             [i \in 1..Len(windows) |-> windows[i].title],
             [i \in 1..Len(windows) |-> AppFilterPasses(app, windows[i])])
    /\ UNCHANGED <<windows, wsvars, objvars, obsvars, mvars, rvars>>

GetAppsWithName(name, condition, flags) ==
    /\ qOp' = [op |-> "getAppsWithName", pattern |-> name,
               condition |-> condition, flags |-> flags]
    /\ Query(name, condition, flags,
             [i \in 1..Len(AllAppsNames) |-> AllAppsNames[i][1]],
             [i \in 1..Len(AllAppsNames) |-> AllAppsNames[i][1]],
             [i \in 1..Len(AllAppsNames) |-> TRUE])
    /\ UNCHANGED <<windows, wsvars, objvars, obsvars, mvars, rvars>>

(***************************************************************************)
(* Initial values of the parts.                                             *)
(***************************************************************************)
MenuIdle ==
    /\ hMenu = 0
    /\ native = EmptyNative
    /\ menuStructure = <<>>
    /\ mOp = [op |-> "none"]
    /\ mRet = "none"
    /\ mRaised = "none"
    /\ posted = <<>>
    /\ queried = FALSE
    /\ built = FALSE
    /\ rebuilt = FALSE
    /\ appChanges = 0
    /\ everBuilt = FALSE
    /\ buildLog = <<>>

RectIdle ==
    /\ rIn = <<>>
    /\ rOut = <<>>

QueryIdle ==
    /\ windows = <<>>
    /\ qOp = [op |-> "none"]
    /\ qRet = <<>>
    /\ qRaised = "none"
    /\ compiled = FALSE
    /\ enumerated = FALSE
    /\ compared = <<>>

\* Win32Window.__init__ on an existing, enumerated window
WatcherInit ==
    /\ exists = TRUE
    /\ stack \in Stacks
    /\ osParent \in {0, Owner}
    /\ parent_ = osParent
    /\ t = "None"
    /\ keep = FALSE
    /\ pc = [th \in Threads |-> IF th = "bg" THEN "unstarted" ELSE "idle"]
    /\ raised = [th \in Threads |-> "none"]
    /\ nCalls = 0
    /\ cmdsCall = 0
    /\ cmdsLoop = 0
    /\ wsCmds = 0
    /\ polls = <<>>
    /\ waited = <<>>
    /\ hazard = "none"
    /\ cmdsSince = [th \in Threads |-> 0]
    /\ scenario = (stack[2] = W)

Init == WatcherInit /\ MenuIdle /\ QueryIdle /\ RectIdle

\* _keep.clear() in kill(): the history variables after it
HazardOnClear ==
    IF ~keep THEN hazard
    ELSE IF pc["bg"] \in LoopPcs THEN "cleared" ELSE "none"

\* _keep.set() in restart(): the history variables after it
HazardOnSet == IF hazard = "cleared" THEN "revived" ELSE hazard

\* the commands are counted anew when the flag changes
SinceOnChange(flag) ==
    IF flag # keep THEN [th \in Threads |-> 0] ELSE cmdsSince

\* restart() that sets the flag and does not call run()
RestartEnters_Not(c) == pc

\* self.run() in restart(): the caller enters the loop
RestartEnters(c) == [pc EXCEPT ![c] = "while"]

(***************************************************************************)
(* Win32Window.alwaysOnBottom(aob=True), up to the point where the caller   *)
(* either returns or enters run() through restart().                        *)
(***************************************************************************)
\* the method without its own SetWindowPos at the start
AlwaysOnBottomTrue_NoLower(c) ==
    /\ pc[c] = "idle"
    /\ nCalls < MaxCalls
    /\ nCalls' = nCalls + 1
    /\ scenario' = (scenario /\ nCalls = 0)
    /\ IF ~exists
         THEN /\ raised' = [raised EXCEPT ![c] = "os_error"]
              /\ UNCHANGED <<t, keep, pc, hazard, cmdsSince>>
         ELSE /\ raised' = [raised EXCEPT ![c] = "none"]
              /\ keep' = TRUE
              /\ cmdsSince' = SinceOnChange(TRUE)
              /\ IF t = "None"
                   THEN /\ t' = "obj"
                        /\ pc' = [pc EXCEPT !["bg"] = "while"]
                        /\ UNCHANGED hazard
                   ELSE /\ pc' = RestartEnters(c)
                        /\ hazard' = HazardOnSet
                        /\ UNCHANGED t
    /\ UNCHANGED <<wsvars, parent_, cmdsCall, cmdsLoop, wsCmds, polls, waited,
                   mvars, qvars, rvars>>

AlwaysOnBottomTrue(c) ==
    /\ pc[c] = "idle"
    /\ nCalls < MaxCalls
    /\ nCalls' = nCalls + 1
    /\ scenario' = (scenario /\ nCalls = 0)
    /\ IF ~exists
         THEN \* SetWindowPos fails on the stale handle: pywintypes.error
              /\ raised' = [raised EXCEPT ![c] = "os_error"]
              /\ UNCHANGED <<stack, cmdsCall, t, keep, pc, hazard, cmdsSince>>
         ELSE /\ raised' = [raised EXCEPT ![c] = "none"]
              /\ stack' = SetPosBottom(stack)
              /\ cmdsCall' = cmdsCall + 1
              /\ keep' = TRUE
              /\ cmdsSince' = SinceOnChange(TRUE)
              /\ IF t = "None"
                   THEN \* _SendBottom(hWnd); setDaemon; start
                        /\ t' = "obj"
                        /\ pc' = [pc EXCEPT !["bg"] = "while"]
                        /\ UNCHANGED hazard
                   ELSE \* restart(): _keep.set(); self.run() in the caller
                        /\ pc' = RestartEnters(c)
                        /\ hazard' = HazardOnSet
                        /\ UNCHANGED t
    /\ UNCHANGED <<exists, osParent, parent_, cmdsLoop, wsCmds, polls, waited,
                   mvars, qvars, rvars>>

(***************************************************************************)
(* Win32Window.alwaysOnBottom(aob=False): kill() if there is a watcher,     *)
(* then sendBehind(sb=False): SetParent, DefWindowProc, RedrawWindow.       *)
(***************************************************************************)
AlwaysOnBottomFalse(c) ==
    /\ pc[c] = "idle"
    /\ nCalls < MaxCalls
    /\ nCalls' = nCalls + 1
    /\ keep' = IF t # "None" THEN FALSE ELSE keep
    /\ hazard' = IF t # "None" THEN HazardOnClear ELSE hazard
    /\ cmdsSince' = SinceOnChange(keep')
    /\ IF exists
         THEN /\ osParent' = parent_
              /\ wsCmds' = wsCmds + 3
              /\ raised' = [raised EXCEPT ![c] = "none"]
         ELSE \* SetParent and DefWindowProc have no effect on the stale
              \* handle, and GetWindowRect fails on it: pywintypes.error
              /\ wsCmds' = wsCmds + 2
              /\ raised' = [raised EXCEPT ![c] = "os_error"]
              /\ UNCHANGED osParent
    /\ scenario' = FALSE
    /\ UNCHANGED <<exists, stack, parent_, t, pc, cmdsCall, cmdsLoop, polls,
                   waited, mvars, qvars, rvars>>

(***************************************************************************)
(* Win32Window.alwaysOnTop(aot)                                             *)
(***************************************************************************)
AlwaysOnTop(c, aot) ==
    /\ pc[c] = "idle"
    /\ nCalls < MaxCalls
    /\ nCalls' = nCalls + 1
    /\ keep' = IF t # "None" /\ IsAlive THEN FALSE ELSE keep
    /\ hazard' = IF t # "None" /\ IsAlive THEN HazardOnClear ELSE hazard
    /\ cmdsSince' = SinceOnChange(keep')
    /\ IF exists
         THEN /\ stack' = IF aot THEN SetPosTopMost(stack) ELSE stack
              /\ raised' = [raised EXCEPT ![c] = "none"]
         ELSE /\ raised' = [raised EXCEPT ![c] = "os_error"]
              /\ UNCHANGED stack
    /\ scenario' = FALSE
    /\ UNCHANGED <<exists, osParent, parent_, t, pc, cmdsCall, cmdsLoop,
                   wsCmds, polls, waited, mvars, qvars, rvars>>

(***************************************************************************)
(* _SendBottom.run, one step per statement; th is the thread "bg" or a      *)
(* caller that entered run() through restart().                             *)
(***************************************************************************)
\* the end of run(): the thread "bg" ends, a caller returns from restart()
LoopExit(th) == IF th = "bg" THEN "done" ELSE "idle"

\* the loop test without self._keep.is_set()
LoopWhile_IgnoreFlag(th) ==
    /\ pc[th] = "while"
    /\ pc' = [pc EXCEPT ![th] = IF exists THEN "isLast" ELSE LoopExit(th)]
    /\ hazard' = IF th = "bg" /\ hazard = "cleared" THEN "none" ELSE hazard
    /\ UNCHANGED <<wsvars, parent_, t, keep, raised, nCalls, cmdsCall,
                   cmdsLoop, wsCmds, polls, waited, scenario, cmdsSince,
                   mvars, qvars, rvars>>

\* while self._keep.is_set() and win32gui.IsWindow(self._hWnd):
LoopWhile(th) ==
    /\ pc[th] = "while"
    /\ pc' = [pc EXCEPT ![th] = IF keep /\ exists THEN "isLast"
                                ELSE LoopExit(th)]
    /\ hazard' = IF th = "bg" /\ hazard = "cleared" THEN "none" ELSE hazard
    /\ UNCHANGED <<wsvars, parent_, t, keep, raised, nCalls, cmdsCall,
                   cmdsLoop, wsCmds, polls, waited, scenario, cmdsSince,
                   mvars, qvars, rvars>>

\* the loop body that never takes the branch of "if not self._isLast()"
LoopIsLast_NeverLowers(th) ==
    /\ pc[th] = "isLast"
    /\ pc' = [pc EXCEPT ![th] = "wait"]
    /\ polls' = IF th = "bg" /\ Len(polls) < MaxPolls
                  THEN Append(polls, IsLast(stack)) ELSE polls
    /\ UNCHANGED <<wsvars, parent_, t, keep, raised, nCalls, cmdsCall,
                   cmdsLoop, wsCmds, waited, scenario, hazard,
                   cmdsSince, mvars, qvars, rvars>>

\* if not self._isLast():
LoopIsLast(th) ==
    /\ pc[th] = "isLast"
    /\ pc' = [pc EXCEPT ![th] = IF IsLast(stack) THEN "wait" ELSE "setpos"]
    /\ polls' = IF th = "bg" /\ Len(polls) < MaxPolls
                  THEN Append(polls, IsLast(stack)) ELSE polls
    /\ UNCHANGED <<wsvars, parent_, t, keep, raised, nCalls, cmdsCall,
                   cmdsLoop, wsCmds, waited, scenario, hazard,
                   cmdsSince, mvars, qvars, rvars>>

\* win32gui.SetWindowPos(self._hWnd, win32con.HWND_BOTTOM, ...)
LoopSetPos(th) ==
    /\ pc[th] = "setpos"
    /\ IF exists
         THEN /\ stack' = SetPosBottom(stack)
              /\ cmdsLoop' = Min(cmdsLoop + 1, MaxLoopCmds)
              /\ cmdsSince' =
                    IF ~keep
                      THEN [cmdsSince EXCEPT
                              ![th] = Min(@ + 1, MaxLoopCmds)]
                    ELSE IF hazard = "revived"
                      THEN [cmdsSince EXCEPT ![th] = 1]
                    ELSE cmdsSince
              /\ pc' = [pc EXCEPT ![th] = "wait"]
              /\ UNCHANGED raised
         ELSE \* the window went away after the IsWindow test
              /\ raised' = [raised EXCEPT ![th] = "os_error"]
              /\ pc' = [pc EXCEPT ![th] = LoopExit(th)]
              /\ UNCHANGED <<stack, cmdsLoop, cmdsSince>>
    /\ UNCHANGED <<exists, osParent, parent_, t, keep, nCalls, cmdsCall,
                   wsCmds, polls, waited, scenario, hazard, mvars, qvars, rvars>>

\* self._keep.wait(self._interval): Event.wait returns at once when the flag
\* is set, and otherwise when the flag gets set or the interval has passed
LoopWait(th) ==
    /\ pc[th] = "wait"
    /\ pc' = [pc EXCEPT ![th] = "while"]
    /\ waited' = IF th # "bg" THEN waited
                  ELSE IF keep THEN <<TRUE, "at once">>
                  ELSE <<FALSE, "interval">>
    /\ UNCHANGED <<wsvars, parent_, t, keep, raised, nCalls, cmdsCall,
                   cmdsLoop, wsCmds, polls, scenario, hazard, cmdsSince,
                   mvars, qvars, rvars>>

(***************************************************************************)
(* The other actors of the desktop.                                         *)
(***************************************************************************)
\* another window is sent below W, or the user brings W to the front
OtherReorder ==
    /\ exists
    /\ \E s \in {Append(Without(stack, o), o) : o \in OtherWindows}
               \cup {<<W>> \o Without(stack, W)} :
         /\ s # stack
         /\ stack' = s
    /\ scenario' = FALSE
    /\ UNCHANGED <<exists, osParent, objvars, nCalls, cmdsCall, cmdsLoop,
                   wsCmds, polls, waited, hazard,
                   cmdsSince, mvars, qvars, rvars>>

\* the application gives W another owner
OtherReparent ==
    /\ exists
    /\ osParent' = IF osParent = 0 THEN Owner ELSE 0
    /\ scenario' = FALSE
    /\ UNCHANGED <<exists, stack, objvars, nCalls, cmdsCall, cmdsLoop,
                   wsCmds, polls, waited, hazard,
                   cmdsSince, mvars, qvars, rvars>>

\* the window is closed: its handle goes stale
CloseWindow ==
    /\ exists
    /\ exists' = FALSE
    /\ stack' = Without(stack, W)
    /\ scenario' = FALSE
    /\ UNCHANGED <<osParent, objvars, nCalls, cmdsCall,
                   cmdsLoop, wsCmds, polls, waited, hazard,
                   cmdsSince, mvars, qvars, rvars>>

Next ==
    \/ \E c \in Callers : AlwaysOnBottomTrue(c)
    \/ \E c \in Callers : AlwaysOnBottomFalse(c)
    \/ \E c \in Callers, aot \in BOOLEAN : AlwaysOnTop(c, aot)
    \/ \E th \in Threads : LoopWhile(th)
    \/ \E th \in Threads : LoopIsLast(th)
    \/ \E th \in Threads : LoopSetPos(th)
    \/ \E th \in Threads : LoopWait(th)
    \/ OtherReorder
    \/ OtherReparent
    \/ CloseWindow

Spec == Init /\ [][Next]_vars

\* the window object whose watcher was started and stopped before:
\* alwaysOnBottom(True) created and started the thread, alwaysOnBottom(False)
\* cleared the flag and the thread "bg" left run() at its next loop test.
\* The counters count from this state on.
ReuseInit ==
    /\ exists = TRUE
    /\ stack \in Stacks
    /\ osParent \in {0, Owner}
    /\ parent_ = osParent
    /\ t = "obj"
    /\ keep = FALSE
    /\ pc = [th \in Threads |-> IF th = "bg" THEN "done" ELSE "idle"]
    /\ raised = [th \in Threads |-> "none"]
    /\ nCalls = 0
    /\ cmdsCall = 0
    /\ cmdsLoop = 0
    /\ wsCmds = 0
    /\ polls = <<>>
    /\ waited = <<>>
    /\ hazard = "none"
    /\ cmdsSince = [th \in Threads |-> 0]
    /\ scenario = FALSE

ReuseSpecInit == ReuseInit /\ MenuIdle /\ QueryIdle /\ RectIdle

ReuseSpec == ReuseSpecInit /\ [][Next]_vars

\* one statement of run() executed by th
LoopStep(th) ==
    LoopWhile(th) \/ LoopIsLast(th) \/ LoopSetPos(th) \/ LoopWait(th)

\* the program with one thread, "main", that calls the API, and the actors
\* of the desktop that change the stacking order or close the window
MainNext ==
    \/ AlwaysOnBottomTrue("main")
    \/ AlwaysOnBottomFalse("main")
    \/ \E aot \in BOOLEAN : AlwaysOnTop("main", aot)
    \/ \E th \in Threads : LoopStep(th)
    \/ OtherReorder
    \/ CloseWindow

\* every execution of run() keeps being scheduled: the thread "bg" is a
\* started threading.Thread, a caller inside restart() is a running thread,
\* and _keep.wait(self._interval) returns after the interval at the latest
FairSpec ==
    /\ Init
    /\ [][MainNext]_vars
    /\ \A th \in Threads : WF_vars(LoopStep(th))

TypeOK ==
    /\ exists \in BOOLEAN
    /\ keep \in BOOLEAN
    /\ t \in {"None", "obj"}
    /\ \A th \in Threads : pc[th] \in LoopPcs \cup {"unstarted", "idle", "done"}
    /\ cmdsLoop \in 0..MaxLoopCmds
    /\ nCalls \in 0..MaxCalls

(***************************************************************************)
(* The menu operations on one window, with the application changing its     *)
(* menus and closing the window in between.                                 *)
(***************************************************************************)
Paths == { <<>>, <<<<"F">>>>, <<<<"S">>>>, <<<<"F">>, <<"S">>>>,
           <<<<"X">>, <<"S">>>>, <<<<"F">>, <<"F">>, <<"S">>>>,
           <<Separator>> }
ClickIds == {0, 11, 99}
RectHandles == {0, 1, 2, 3, 9}
RectIds == {11, 12, 99}

\* Win32Window.__init__ with no watcher activity
WatcherIdle ==
    /\ exists = TRUE
    /\ stack = <<2, W, 3>>
    /\ osParent = 0
    /\ parent_ = osParent
    /\ t = "None"
    /\ keep = FALSE
    /\ pc = [th \in Threads |-> IF th = "bg" THEN "unstarted" ELSE "idle"]
    /\ raised = [th \in Threads |-> "none"]
    /\ nCalls = 0
    /\ cmdsCall = 0
    /\ cmdsLoop = 0
    /\ wsCmds = 0
    /\ polls = <<>>
    /\ waited = <<>>
    /\ hazard = "none"
    /\ cmdsSince = [th \in Threads |-> 0]
    /\ scenario = FALSE

\* _Menu.__init__
MenuInit ==
    /\ hMenu \in {0, RootMenu}
    /\ native \in IF hMenu = 0 THEN {EmptyNative} ELSE NativeMenus
    /\ menuStructure = <<>>
    /\ mOp = [op |-> "none"]
    /\ mRet = "none"
    /\ mRaised = "none"
    /\ posted = <<>>
    /\ queried = FALSE
    /\ built = FALSE
    /\ rebuilt = FALSE
    /\ appChanges = 0
    /\ everBuilt = FALSE
    /\ buildLog = <<>>

MenuSpecInit == WatcherIdle /\ MenuInit /\ QueryIdle /\ RectIdle

MenuNext ==
    \/ GetMenu
    \/ \E itemPath \in Paths, wID \in ClickIds : ClickMenuItem(itemPath, wID)
    \/ \E hSubMenu \in RectHandles, wID \in RectIds :
           GetMenuItemRect(hSubMenu, wID)
    \/ AppRemoveItem
    \/ AppAppendItem
    \/ CloseWindow

MenuSpec == MenuSpecInit /\ [][MenuNext]_vars


(***************************************************************************)
(* The queries on a desktop of two enumerated windows.  A query reads       *)
(* nothing that an earlier query wrote, so a behaviour makes one query.     *)
(***************************************************************************)
Titles == {<<>>, <<"a">>, <<"A", "b">>, <<"b">>, <<"x", "a", "B", "c", "z">>}
AppNames == {<<"x">>, <<"X", "a">>}
Patterns == {<<>>, <<"a">>, <<"A">>, <<"a", "b">>, <<"A", "B", "C">>, <<"(">>}
QueryConditions == Conditions \cup {"BOGUS"}
\* the last one is a number between 50 and 51
QueryFlags == {IntFlags(n) : n \in {-1, 0, 1, IGNORECASE, 50, 100, 101}}
                 \cup {FloatFlags(50)}
AppFilters == {{}, {<<"x">>}}

\* the windows getAllWindows enumerates, front to back
QueryInit ==
    /\ windows \in {<<[h |-> 1, title |-> t1, app |-> a1],
                      [h |-> 2, title |-> t2, app |-> a2]>> :
                        t1 \in Titles, t2 \in Titles,
                        a1 \in AppNames, a2 \in AppNames}
    /\ qOp = [op |-> "none"]
    /\ qRet = <<>>
    /\ qRaised = "none"
    /\ compiled = FALSE
    /\ enumerated = FALSE
    /\ compared = <<>>

QuerySpecInit == WatcherIdle /\ MenuIdle /\ QueryInit /\ RectIdle

QueryNext ==
    \/ \E title \in Patterns, app \in AppFilters,
          condition \in QueryConditions, flags \in QueryFlags :
           qOp.op = "none" /\ GetWindowsWithTitle(title, app, condition, flags)
    \/ \E name \in Patterns, condition \in QueryConditions,
          flags \in QueryFlags :
           qOp.op = "none" /\ GetAppsWithName(name, condition, flags)

QuerySpec == QuerySpecInit /\ [][QueryNext]_vars

(***************************************************************************)
(* _Menu._getMenuItemRect on the rectangles the OS can report, on a desktop *)
(* whose coordinates are of either sign (a monitor left of or above the     *)
(* primary one has negative coordinates).                                   *)
(***************************************************************************)
MaxCoord == 2
Coords == (-MaxCoord)..MaxCoord

\* rectangles in absolute screen coordinates
ScreenRects == {<<x, y, r, b>> : x \in Coords, y \in Coords,
                                 r \in Coords, b \in Coords}

RectInit ==
    /\ rIn \in [rect : {rc \in ScreenRects : rc[1] <= rc[3] /\ rc[2] <= rc[4]},
                 left : Coords,
                 top : Coords,
                 parentRect : {<<>>} \cup {<<x, 0, x + 1, 1>> : x \in Coords}]
    /\ rOut = <<>>

RectSpecInit == WatcherIdle /\ MenuIdle /\ QueryIdle /\ RectInit

\* rect = self._getMenuItemRect(hSubMenu=parent, itemPos=i, relative=True,
\* parentRect=parentRect)
StoreItemRect ==
    /\ rOut = <<>>
    /\ rOut' = RelativeRect(rIn.rect, rIn.left, rIn.top, rIn.parentRect)
    /\ UNCHANGED <<rIn, wsvars, objvars, obsvars, mvars, qvars>>

RectNext == StoreItemRect

RectSpec == RectSpecInit /\ [][RectNext]_vars

(***************************************************************************)
(* Claims about the watcher (checked under Spec).                           *)
(***************************************************************************)

\* C1: in every reachable state at most one execution of the
\* _SendBottom.run loop is active for the window; a second
\* alwaysOnBottom(True) while the first loop runs starts no second loop.
C1_AtMostOneLoop == Cardinality(Running) <= 1

\* the scenario of C2 after its single call: W was second of three, exactly
\* one alwaysOnBottom(True) was made, and nothing else touched the desktop
C2_Scenario == scenario /\ nCalls = 1

\* C2 as stated: in the scenario the watcher's first poll observes that W is
\* not the last element, exactly one bottom-reposition command is issued,
\* and the next poll observes W as the last element.
C2_AsStated ==
    (C2_Scenario /\ Len(polls) >= 2)
        => /\ polls[1] = FALSE
           /\ polls[2] = TRUE
           /\ cmdsCall + cmdsLoop = 1

\* C2 as amended: in the scenario alwaysOnBottom(True) itself issues exactly
\* one bottom-reposition command before the watcher starts, W is the last
\* element from then on, every poll of the watcher observes W as the last
\* element, and the loop issues no reposition command.
C2_EnableLowersOnce ==
    C2_Scenario
        => /\ cmdsCall = 1
           /\ cmdsLoop = 0
           /\ IsLast(stack)
           /\ \A i \in 1..Len(polls) : polls[i] = TRUE

\* the scenario of C2 with two polls of the watcher made
C2_Witness == C2_Scenario /\ Len(polls) >= 2 /\ pc["bg"] \in LoopPcs

\* C7: alwaysOnBottom(False) on an idle watcher (no execution of run() is
\* under way) issues no command to the window system and leaves the
\* stacking, the parent and the watcher state unchanged.
C7_DisableIdleNoOp ==
    [][((\E c \in Callers : AlwaysOnBottomFalse(c)) /\ Running = {})
          => UNCHANGED <<stack, osParent, wsCmds, cmdsCall, cmdsLoop,
                         t, keep, pc>>]_vars

\* C16: when restart() sets the flag again after kill() cleared it and
\* before the thread "bg" has tested it, "bg" and the restarting caller are
\* both in run() for as long as the window exists and the flag stays set;
\* the interleaving is reachable and both of them then issue HWND_BOTTOM
\* commands (C16_Witness).
C16_RevivedLoopsRunTogether ==
    (hazard = "revived" /\ exists)
        => /\ keep
           /\ pc["bg"] \in LoopPcs
           /\ \E c \in Callers : pc[c] \in LoopPcs

\* after such a restart the thread "bg" and a caller have each issued a
\* HWND_BOTTOM command from run()
C16_Witness ==
    /\ hazard = "revived"
    /\ exists
    /\ cmdsSince["bg"] = 1
    /\ \E c \in Callers : cmdsSince[c] = 1 /\ pc[c] \in LoopPcs

\* C17 as stated: once the flag is cleared, and until a restart sets it, no
\* execution of run() issues a HWND_BOTTOM command.
C17_AsStated == ~keep => \A th \in Threads : cmdsSince[th] = 0

\* C17: once the flag is cleared, and until a restart sets it, every
\* execution of run() issues at most one more HWND_BOTTOM command.
C17_AtMostOneLateCommand == ~keep => \A th \in Threads : cmdsSince[th] <= 1

\* the thread "bg" issued a command after the flag was cleared and has ended
C17_Witness == ~keep /\ cmdsSince["bg"] = 1 /\ pc["bg"] = "done"

\* C18: a _keep.wait() called while the flag is set takes the interval, and
\* one that finds the flag cleared returns at once.
C18_InterruptibleSleep ==
    waited # <<>>
        => waited[2] = IF waited[1] THEN "interval" ELSE "at once"

\* C19: once the window is gone a step of run() issues no command, changes
\* nothing but the position of its thread, and raises nothing in a caller.
C19_SilentExitWhenGone ==
    [][\A th \in Threads :
          (/\ ~exists
           /\ LoopWhile(th) \/ LoopIsLast(th) \/ LoopSetPos(th) \/ LoopWait(th))
             => /\ UNCHANGED <<wsvars, cmdsLoop, t, keep>>
                /\ \A c \in Callers : raised'[c] = raised[c]]_vars

\* C24: no caller of alwaysOnBottom is ever inside run(): the loop runs on
\* the thread "bg" only and every call returns to its caller.
C24_LoopOnlyInBackground == \A c \in Callers : pc[c] \notin LoopPcs

\* C26: when alwaysOnTop returns on an existing window, the flag of every
\* execution of run() that is still under way is cleared.
C26_TopEndsBottom ==
    [][\A c \in Callers, aot \in BOOLEAN :
          (AlwaysOnTop(c, aot) /\ exists /\ Running' # {}) => ~keep']_vars

\* C29: under FairSpec, whenever the flag is set, the window exists, an
\* execution of run() is under way and W is not the last window, W becomes
\* the last window again (or the flag is cleared or the window is closed);
\* and a pass of the loop whose _isLast() finds W last goes straight to the
\* wait and issues no command.
C29_WatcherRestoresLast ==
    /\ (keep /\ exists /\ Running # {} /\ ~IsLast(stack))
          ~> (IsLast(stack) \/ ~keep \/ ~exists)
    /\ [][\A th \in Threads :
             (LoopIsLast(th) /\ IsLast(stack))
                => /\ pc'[th] = "wait"
                   /\ UNCHANGED <<stack, cmdsLoop>>]_vars

\* the thread "bg" found W above another window, has issued its command and
\* W is the last window again
C29_Witness ==
    /\ keep
    /\ exists
    /\ cmdsLoop >= 1
    /\ IsLast(stack)
    /\ pc["bg"] = "wait"

(***************************************************************************)
(* Claims about the menu tree (checked under MenuSpec).                     *)
(***************************************************************************)
RECURSIVE PathPresent(_, _)
\* every segment of the path is in the tree, each under the one before it
PathPresent(option, path) ==
    \/ path = <<>>
    \/ \E i \in 1..Len(option) :
          /\ option[i].key = Head(path)
          /\ PathPresent(option[i].node.entries, Tail(path))

RECURSIVE NodesOf(_)
\* the nodes of a tree, at every level
NodesOf(option) ==
    UNION {{option[i].node} \cup NodesOf(option[i].node.entries) :
              i \in 1..Len(option)}

\* C3: clickMenuItem with a path and no command id, one of whose segments is
\* absent from the cached tree, returns False, posts no WM_COMMAND and
\* raises nothing.
C3_AbsentSegmentFails ==
    (/\ mOp.op = "click"
     /\ mOp.wID = 0
     /\ mOp.path # <<>>
     /\ ~PathPresent(menuStructure, mOp.path))
        => (mRet = FALSE /\ posted = <<>> /\ mRaised = "none")

\* clickMenuItem was called with a two-segment path whose first segment is in
\* the tree of a window with a menu and whose second segment is not below it
C3_Witness ==
    /\ mOp.op = "click"
    /\ mOp.wID = 0
    /\ hMenu # 0
    /\ Len(mOp.path) = 2
    /\ PathPresent(menuStructure, <<mOp.path[1]>>)
    /\ DictGet(menuStructure, mOp.path[1]).entries # <<>>
    /\ ~PathPresent(menuStructure, mOp.path)

\* C4: getMenuItemRect(hSubMenu, wID) returns the zero rectangle when no
\* cached node has the submenu handle, when the submenu found has no child
\* with the command id, and when the position is outside the submenu's
\* current native item count.
C4_ZeroRectUnlessFound ==
    (/\ mOp.op = "getMenuItemRect"
     /\ \/ \A n \in NodesOf(menuStructure) : n.hSubMenu # mOp.hSubMenu
        \/ \A n \in NodesOf(menuStructure) :
              n.hSubMenu = mOp.hSubMenu
                 => \A i \in 1..Len(n.entries) :
                       n.entries[i].node.wID # mOp.wID
        \/ FindItemPos(menuStructure, mOp.hSubMenu, mOp.wID)
              >= GetMenuItemCount(mOp.hSubMenu))
        => mRet = ZeroRect

\* C5: on a window without a native menu handle getMenu returns an empty
\* tree, clickMenuItem returns False and posts nothing, getMenuItemRect
\* returns the zero rectangle; none of them raises or calls the OS.
C5_NoMenuNoOp ==
    (hMenu = 0 /\ mOp.op # "none")
        => /\ menuStructure = <<>>
           /\ posted = <<>>
           /\ mRaised = "none"
           /\ queried = FALSE
           /\ mOp.op = "getMenu" => mRet = <<>>
           /\ mOp.op = "click" => mRet = FALSE
           /\ mOp.op = "getMenuItemRect" => mRet = ZeroRect

\* clickMenuItem was called with a command id on a window without a menu
C5_Witness == hMenu = 0 /\ mOp.op = "click" /\ mOp.wID # 0 /\ mOp.path # <<>>

\* C6: a getMenu that directly follows a getMenu on the unchanged native
\* menu leaves the tree as it is: same keys in the same order at every
\* level, same parents, submenu handles and command ids.
C6_RebuildIdentical ==
    [][(/\ mOp.op = "getMenu"
        /\ mOp.alive = exists
        /\ mOp'.op = "getMenu"
        /\ GetMenu)
          => menuStructure' = menuStructure]_vars

\* a second getMenu in a row was made on a menu with a nested submenu
C6_Witness ==
    /\ rebuilt
    /\ mOp.op = "getMenu"
    /\ \E i \in 1..Len(menuStructure) :
          \E j \in 1..Len(menuStructure[i].node.entries) :
              menuStructure[i].node.entries[j].node.entries # <<>>

\* C8: clickMenuItem with a non-zero command id on an existing window with a
\* menu posts exactly one WM_COMMAND with that id and returns True, whatever
\* the path argument, and without building or reading the tree.
C8_ExplicitIdDispatched ==
    (mOp.op = "click" /\ mOp.wID # 0 /\ hMenu # 0 /\ mOp.alive)
        => /\ mRet = TRUE
           /\ posted = <<mOp.wID>>
           /\ mRaised = "none"
           /\ built = FALSE

\* clickMenuItem was called with a command id and also with a path that
\* resolves, in the tree, to another command id
C8_Witness ==
    /\ mOp.op = "click"
    /\ mOp.wID # 0
    /\ hMenu # 0
    /\ mOp.alive
    /\ mOp.path # <<>>
    /\ PathItemID(menuStructure, mOp.path) \notin {0, mOp.wID}

\* C9: no menu operation raises anything but a regular-expression error; on
\* a stale handle or a failing OS call it returns its benign value.
C9_NoOsFault == mRaised \in {"none", "re_error"}

\* C20: getMenu on an existing window puts a top-level item that has no text
\* and has a submenu into the tree under the key "separator", with that
\* submenu's handle and with the submenu's items that have a text among its
\* entries.
C20_TextlessSubmenuKept ==
    [][(mOp'.op = "getMenu" /\ GetMenu /\ exists /\ hMenu # 0)
          => \A i \in 1..Len(native[hMenu]) :
                LET info == native[hMenu][i]
                IN  (info.text = <<>> /\ info.hSubMenu # 0)
                       => \E k \in 1..Len(menuStructure') :
                             /\ menuStructure'[k].key = Separator
                             /\ menuStructure'[k].node.hSubMenu = info.hSubMenu
                             /\ \A j \in 1..Len(native[info.hSubMenu]) :
                                   native[info.hSubMenu][j].text # <<>>
                                      => TitleOf(native[info.hSubMenu][j].text)
                                           \in Keys(menuStructure'[k].node.entries)]_vars

\* the insertions of log that follow insertion p and come before the next
\* insertion at the level of p or above
Below(log, p) ==
    {k \in (p + 1)..Len(log) :
        \A m \in (p + 1)..k : Len(log[m].level) > Len(log[p].level)}

\* C22: getMenu builds depth-first.  Every insertion is followed at once by
\* the insertions of the item's whole submenu, in the order of the submenu
\* and each written at the level of that item, and only then by the
\* insertion of the item's next sibling.
C22_DepthFirst ==
    [][(mOp'.op = "getMenu" /\ GetMenu /\ exists /\ hMenu # 0)
          => \A p \in 1..Len(buildLog') :
                LET e == buildLog'[p]
                    item == native[e.parent][e.pos + 1]
                    kids == {k \in Below(buildLog', p) :
                               Len(buildLog'[k].level) = Len(e.level) + 1}
                    next == Cardinality(Below(buildLog', p)) + p + 1
                IN  /\ \A k \in kids :
                          /\ buildLog'[k].parent = item.hSubMenu
                          /\ buildLog'[k].level
                               = e.level \o <<TitleOf(item.text)>>
                    /\ \A k \in kids : \A m \in kids :
                          k < m => buildLog'[k].pos < buildLog'[m].pos
                    /\ {buildLog'[k].pos + 1 : k \in kids}
                          = IF item.hSubMenu = 0 THEN {}
                            ELSE {j \in 1..Len(native[item.hSubMenu]) :
                                     native[item.hSubMenu][j].text # <<>>}
                    /\ (next <= Len(buildLog')
                          /\ Len(buildLog'[next].level) = Len(e.level))
                         => /\ buildLog'[next].parent = e.parent
                            /\ buildLog'[next].pos > e.pos]_vars

\* getMenu built a tree of three levels in which an item with a submenu of
\* its own is followed by a sibling
C22_Witness ==
    /\ mOp.op = "getMenu"
    /\ \E p \in 1..Len(buildLog) : \E q \in 1..Len(buildLog) :
          /\ p < q
          /\ Len(buildLog[p].level) = 2
          /\ Len(buildLog[q].level) = 1

\* C23: once some operation has built the tree, clickMenuItem and
\* getMenuItemRect answer from the cached tree: they do not run getMenu
\* again and leave the tree as it is.
C23_BuiltOnce ==
    [][(/\ everBuilt
        /\ \/ \E itemPath \in Paths, wID \in ClickIds :
                 ClickMenuItem(itemPath, wID)
           \/ \E hSubMenu \in RectHandles, wID \in RectIds :
                 GetMenuItemRect(hSubMenu, wID))
          => (~built' /\ menuStructure' = menuStructure)]_vars

\* C25: for an item that is in the cached tree of a menu the application
\* has not changed, getMenuItemRect returns the rectangle of the native item
\* with that command id: the rank among the cached siblings is the native
\* position.
C25_RankIsNativePosition ==
    (/\ mOp.op = "getMenuItemRect"
     /\ mOp.alive
     /\ hMenu # 0
     /\ appChanges = 0
     /\ mOp.hSubMenu \in MenuHandles
     /\ \E n \in NodesOf(menuStructure) :
           n.parent = mOp.hSubMenu /\ n.wID = mOp.wID)
        => mRet \in {OsMenuItemRect(mOp.hSubMenu, j - 1) :
                       j \in {k \in 1..Len(native[mOp.hSubMenu]) :
                                /\ native[mOp.hSubMenu][k].text # <<>>
                                /\ native[mOp.hSubMenu][k].wID = mOp.wID}}

\* C27: when getMenu returns on an existing window, every node of the tree,
\* at every level, is an item of the native menu it names as its parent.
C27_RebuildMirrorsNative ==
    [][(mOp'.op = "getMenu" /\ GetMenu /\ exists /\ hMenu # 0)
          => \A n \in NodesOf(menuStructure') :
                \E j \in 1..Len(native[n.parent]) :
                   /\ native[n.parent][j].text # <<>>
                   /\ native[n.parent][j].wID = n.wID
                   /\ native[n.parent][j].hSubMenu = n.hSubMenu]_vars

\* C28: a clickMenuItem that returns has returned True exactly when it posted
\* one WM_COMMAND; it never posts more than one, posts none when it raises,
\* the id posted is not 0 and is the wID given or the wID of the node the
\* path resolves to, and a path that resolves to no id (a node with wID 0 or
\* no node), given without a wID, returns False and posts nothing.
C28_TrueIffPosted ==
    mOp.op = "click"
        => /\ Len(posted) <= 1
           /\ mRaised = "none" => ((mRet = TRUE) <=> (Len(posted) = 1))
           /\ mRaised # "none" => posted = <<>>
           /\ posted # <<>>
                 => /\ posted[1] # 0
                    /\ \/ posted[1] = mOp.wID
                       \/ /\ mOp.path # <<>>
                          /\ posted[1] = PathItemID(menuStructure, mOp.path)
           /\ (/\ mOp.wID = 0
               /\ mOp.path # <<>>
               /\ PathItemID(menuStructure, mOp.path) = 0)
                 => (mRaised = "none" /\ mRet = FALSE /\ posted = <<>>)

\* clickMenuItem was called, without a wID, with the path of a cached node
\* whose command id is 0 (an item that opens a submenu)
C28_Witness ==
    /\ mOp.op = "click"
    /\ mOp.wID = 0
    /\ hMenu # 0
    /\ mOp.path # <<>>
    /\ PathPresent(menuStructure, mOp.path)
    /\ PathItemID(menuStructure, mOp.path) = 0
    /\ mRaised = "none"
    /\ mRet = FALSE

\* the titles of the items of the native menu h that have a text
TitlesIn(nat, h) ==
    IF h \in MenuHandles
      THEN {TitleOf(nat[h][i].text) :
              i \in {k \in 1..Len(nat[h]) : nat[h][k].text # <<>>}}
      ELSE {}

RECURSIVE LaterWins(_, _, _, _, _)
\* in the part option of the tree ms built for the native menu h, reached by
\* the path level, and in the parts below it: a title that several items of
\* h share is the key of one node, which has the command id, the submenu
\* handle and the entries of the last of those items, and the path to the
\* key resolves to that item's command id
LaterWins(nat, ms, option, h, level) ==
    LET texted == {i \in 1..Len(nat[h]) : nat[h][i].text # <<>>}
    IN  \A i \in texted :
           LET key == TitleOf(nat[h][i].text)
               same == {j \in texted : TitleOf(nat[h][j].text) = key}
               last == CHOOSE j \in same : \A k \in same : k <= j
               node == DictGet(option, key)
           IN  /\ key \in Keys(option)
               /\ Cardinality(same) >= 2
                     => /\ Cardinality({k \in 1..Len(option) :
                                           option[k].key = key}) = 1
                        /\ node.wID = nat[h][last].wID
                        /\ node.hSubMenu = nat[h][last].hSubMenu
                        /\ Keys(node.entries) = TitlesIn(nat, node.hSubMenu)
                        /\ PathItemID(ms, Append(level, key))
                             = nat[h][last].wID
               /\ (i = last /\ nat[h][i].hSubMenu \in MenuHandles)
                     => LaterWins(nat, ms, node.entries, nat[h][i].hSubMenu,
                                  Append(level, key))

\* C30: when getMenu returns on an existing window and several items of one
\* native menu have the same title, the tree has one node under that title
\* and it is the node of the last of them: its command id, submenu handle
\* and entries are those of the last item, and the path to the title
\* resolves to the last item's command id.
C30_LaterSiblingWins ==
    [][(mOp'.op = "getMenu" /\ GetMenu /\ exists /\ hMenu # 0)
          => LaterWins(native, menuStructure', menuStructure', hMenu, <<>>)]_vars

\* getMenu has returned the tree of a menu bar with two items of one title,
\* the first with a submenu and the second a plain command, and the node
\* under the title is the plain command
C30_Witness ==
    /\ mOp.op = "getMenu"
    /\ mOp.alive
    /\ hMenu # 0
    /\ \E i \in 1..Len(native[hMenu]) : \E j \in 1..Len(native[hMenu]) :
          /\ i < j
          /\ native[hMenu][i].text # <<>>
          /\ native[hMenu][j].text # <<>>
          /\ TitleOf(native[hMenu][i].text) = TitleOf(native[hMenu][j].text)
          /\ native[hMenu][i].hSubMenu # 0
          /\ native[hMenu][j].wID # 0
          /\ TitleOf(native[hMenu][j].text) \in Keys(menuStructure)
          /\ DictGet(menuStructure, TitleOf(native[hMenu][j].text)).wID
                = native[hMenu][j].wID
          /\ DictGet(menuStructure, TitleOf(native[hMenu][j].text)).entries
                = <<>>

(***************************************************************************)
(* Claims about the item rectangles (checked under RectSpec).               *)
(***************************************************************************)
\* C21: the rectangle the build stores for an item is the rectangle the OS
\* reports minus the window's top-left, coordinate by coordinate, with the
\* left coordinate replaced by the parent rectangle's left when a parent
\* rectangle is supplied.
C21_PlainSubtraction ==
    rOut # <<>>
        => rOut = <<IF rIn.parentRect # <<>> THEN rIn.parentRect[1]
                    ELSE rIn.rect[1] - rIn.left,
                    rIn.rect[2] - rIn.top,
                    rIn.rect[3] - rIn.left,
                    rIn.rect[4] - rIn.top>>

(***************************************************************************)
(* Claims about the query engine (checked under QuerySpec).                 *)
(***************************************************************************)

\* C10: with an empty pattern getWindowsWithTitle and getAppsWithName return
\* an empty list for every condition, the negated ones included, and every
\* flags value, and raise nothing.
C10_EmptyPatternMatchesNothing ==
    (qOp.op # "none" /\ qOp.pattern = <<>>)
        => (qRet = <<>> /\ qRaised = "none")

\* a negated condition was queried with the empty pattern on a desktop whose
\* windows all have a title
C10_Witness ==
    /\ qOp.op = "getWindowsWithTitle"
    /\ qOp.pattern = <<>>
    /\ qOp.condition = "NOTCONTAINS"
    /\ qOp.app = {}
    /\ \A i \in 1..Len(windows) : windows[i].title # <<>>

\* C11: with a condition that is not one of the recognised ones both query
\* functions return an empty list for every pattern and every flags value,
\* raise nothing, and neither compile the pattern nor enumerate the windows.
C11_UnknownConditionFailsClosed ==
    (qOp.op # "none" /\ qOp.condition \notin Conditions)
        => /\ qRet = <<>>
           /\ qRaised = "none"
           /\ ~compiled
           /\ ~enumerated
           /\ compared = <<>>

\* an unrecognised condition was queried with a pattern that does not
\* compile, on a desktop whose windows all have a title
C11_Witness ==
    /\ qOp.op = "getWindowsWithTitle"
    /\ qOp.condition \notin Conditions
    /\ qOp.pattern = <<"(">>
    /\ \A i \in 1..Len(windows) : windows[i].title # <<>>

\* C12: for EDITDISTANCE and DIFFRATIO every comparison is made with the
\* caller's flags when that is an integer in 1..100 and with 90 otherwise
\* (0, negative, above 100, not an integer), and the query raises nothing.
C12_ThresholdClamped ==
    (/\ qOp.op # "none"
     /\ qOp.condition \in {"EDITDISTANCE", "DIFFRATIO"}
     /\ qOp.pattern # <<>>)
        => /\ qRaised = "none"
           /\ \A i \in 1..Len(compared) :
                 compared[i][3] = IF qOp.flags.int /\ qOp.flags.n \in 1..100
                                    THEN qOp.flags.n ELSE DefaultRatio

\* a ratio condition was queried with the threshold 0 and compared the
\* pattern with a title that is nothing like it, which did not match
C12_Witness ==
    /\ qOp.op = "getWindowsWithTitle"
    /\ qOp.condition = "EDITDISTANCE"
    /\ qOp.flags = IntFlags(0)
    /\ qOp.app = {}
    /\ \E i \in 1..Len(compared) : EditRatio(compared[i][1], compared[i][2]) = 0
    /\ qRet = <<>>

\* C13: the list getWindowsWithTitle returns is a subsequence of the
\* enumeration: its windows are in the order of the enumeration and each is
\* there once.
C13_ResultInEnumerationOrder ==
    qOp.op = "getWindowsWithTitle"
        => \E idx \in [1..Len(qRet) -> 1..Len(windows)] :
              /\ \A i \in 1..Len(qRet) : \A j \in 1..Len(qRet) :
                    i < j => idx[i] < idx[j]
              /\ \A i \in 1..Len(qRet) : qRet[i] = windows[idx[i]]

\* a query returned both windows of the desktop
C13_Witness ==
    /\ qOp.op = "getWindowsWithTitle"
    /\ Len(qRet) = 2
    /\ windows[1].title # windows[2].title

\* C14: getWindowsWithTitle returns a window if and only if its title
\* matches and, when the application filter is not empty, its application
\* name is in the filter.
C14_AppFilter ==
    (/\ qOp.op = "getWindowsWithTitle"
     /\ qOp.pattern # <<>>
     /\ qOp.condition \in Conditions
     /\ qRaised = "none")
        => \A i \in 1..Len(windows) :
              windows[i] \in Range(qRet)
                 <=> /\ Matches(qOp.pattern, windows[i].title, qOp.condition,
                                qOp.flags)
                     /\ qOp.app # {} => windows[i].app \in qOp.app

\* a query with an application filter returned one window and left out
\* another whose title matches and whose application is not in the filter
C14_Witness ==
    /\ qOp.op = "getWindowsWithTitle"
    /\ qOp.app # {}
    /\ qRaised = "none"
    /\ Len(qRet) = 1
    /\ \E i \in 1..Len(windows) :
          /\ Matches(qOp.pattern, windows[i].title, qOp.condition, qOp.flags)
          /\ windows[i].app \notin qOp.app

\* C15: with the flags IGNORECASE the conditions IS, CONTAINS, STARTSWITH,
\* ENDSWITH and their negations compare the lowercased pattern with the
\* lowercased candidate, and with other flags the two as they are; "ABC"
\* under CONTAINS matches the title "xaBcz" with IGNORECASE and not without.
C15_IgnoreCaseLowersBoth ==
    (/\ qOp.op # "none"
     /\ qOp.pattern # <<>>
     /\ qOp.condition \in Conditions \ {"MATCH", "NOTMATCH", "EDITDISTANCE",
                                        "DIFFRATIO"})
        => /\ \A i \in 1..Len(compared) :
                 IF qOp.flags = IntFlags(IGNORECASE)
                   THEN /\ compared[i][1] = Lower(qOp.pattern)
                        /\ compared[i][2] = Lower(compared[i][2])
                   ELSE compared[i][1] = qOp.pattern
           /\ (/\ qOp.op = "getWindowsWithTitle"
               /\ qOp.pattern = <<"A", "B", "C">>
               /\ qOp.condition = "CONTAINS"
               /\ qOp.app = {})
                 => \A i \in 1..Len(windows) :
                       windows[i].title = <<"x", "a", "B", "c", "z">>
                          => (windows[i] \in Range(qRet)
                                <=> qOp.flags = IntFlags(IGNORECASE))

\* "ABC" was looked for under CONTAINS with IGNORECASE and the window
\* titled "xaBcz" was returned
C15_Witness ==
    /\ qOp.op = "getWindowsWithTitle"
    /\ qOp.pattern = <<"A", "B", "C">>
    /\ qOp.condition = "CONTAINS"
    /\ qOp.flags = IntFlags(IGNORECASE)
    /\ \E i \in 1..Len(qRet) : qRet[i].title = <<"x", "a", "B", "c", "z">>

====
